---- MODULE Spec2Model ----
(***************************************************************************)
(* SAS Link Service (src/app.py, src/utils.py): the JWT gate               *)
(* JWTAuth.verify_and_match and the two resource endpoints                 *)
(* /sas/report/{character_id} and /sas/certificate/{character_id}.         *)
(*                                                                         *)
(* Python strings are sequences of one-character strings, so that lower(), *)
(* str(), quote(), basename() and encode('ascii','ignore') are computed.   *)
(* Optional[x] is <<>> (None) or <<x>>.                                    *)
(***************************************************************************)
EXTENDS Integers, Sequences, FiniteSets, TLC

\* ------------------------------------------------------------------ bounds
\* The clock runs over 1..MaxTime.
MaxTime == 2

\* ------------------------------------------------------------ Python values
None == <<>>

Some(x) == <<x>>

\* `if x:` on an Optional[str]: neither None nor the empty string.
Truthy(opt) == Len(opt) = 1 /\ Len(opt[1]) > 0

UpperLetters == <<"A","B","C","D","E","F","G","H","I","J","K","L","M",
                  "N","O","P","Q","R","S","T","U","V","W","X","Y","Z">>

LowerLetters == <<"a","b","c","d","e","f","g","h","i","j","k","l","m",
                  "n","o","p","q","r","s","t","u","v","w","x","y","z">>

LowerChar(c) ==
    IF \E i \in 1..Len(UpperLetters) : UpperLetters[i] = c
    THEN LowerLetters[CHOOSE i \in 1..Len(UpperLetters) : UpperLetters[i] = c]
    ELSE c

\* str.lower()
Lower(s) == [i \in 1..Len(s) |-> LowerChar(s[i])]

DigitChars == <<"0","1","2","3","4","5","6","7","8","9">>

RECURSIVE IntToStr(_)
\* str(n) for a non-negative int
IntToStr(n) ==
    IF n < 10 THEN <<DigitChars[n + 1]>>
    ELSE IntToStr(n \div 10) \o <<DigitChars[(n % 10) + 1]>>

\* A JSON claim value: absent from the payload, null, an int or a string.
AbsentClaim == [t |-> "absent", n |-> 0, s |-> <<>>]

NullClaim == [t |-> "null", n |-> 0, s |-> <<>>]

IntClaim(n) == [t |-> "int", n |-> n, s |-> <<>>]

StrClaim(s) == [t |-> "str", n |-> 0, s |-> s]

\* str(claims.get("characterId")): dict.get gives None for an absent key, and
\* a JSON null decodes to None; str(None) is "None".
PyStr(v) ==
    CASE v.t = "int" -> IntToStr(v.n)
      [] v.t = "str" -> v.s
      [] OTHER       -> <<"N","o","n","e">>

\* --------------------------------------------------------------- the tokens
\* A JWT as the verifier sees it: whether its signature verifies under the
\* configured public key, its header algorithm, and its payload claims.
GoodToken == [sig |-> TRUE, alg |-> "RS256", exp |-> Some(MaxTime), iat |-> Some(0),
              cid |-> IntClaim(7)]

Tokens == << GoodToken,
             [GoodToken EXCEPT !.cid = StrClaim(<<"7">>)],
             [GoodToken EXCEPT !.cid = IntClaim(12)],
             [GoodToken EXCEPT !.cid = AbsentClaim],
             [GoodToken EXCEPT !.cid = NullClaim],
             [GoodToken EXCEPT !.sig = FALSE],
             [GoodToken EXCEPT !.alg = "HS256"],
             [GoodToken EXCEPT !.exp = None],
             [GoodToken EXCEPT !.iat = None],
             [GoodToken EXCEPT !.exp = Some(1), !.cid = IntClaim(12)] >>

\* The pieces of a header value: whitespace, a plain word, or a JWT (an index
\* into Tokens).
Sp == [k |-> "sp", w |-> <<>>, t |-> 0]

Word(w) == [k |-> "word", w |-> w, t |-> 0]

Jwt(i) == [k |-> "jwt", w |-> <<>>, t |-> i]

Bearer == Word(<<"B","e","a","r","e","r">>)

\* header.strip().split(): the maximal runs of non-whitespace.
StripSplit(header) == SelectSeq(header, LAMBDA a : a.k # "sp")

\* JWTAuth._extract_bearer_token: only the Authentication header is read.
ExtractBearerToken(headers) ==
    LET header == headers.Authentication
    IN  IF Truthy(header)
        THEN LET parts == StripSplit(header[1])
             IN  IF Len(parts) = 1 THEN Some(parts[1])
                 ELSE IF Len(parts) = 2 /\ parts[1].k = "word"
                         /\ Lower(parts[1].w) = Lower(Bearer.w)
                      THEN Some(parts[2])
                      ELSE None
        ELSE None

\* jwt.decode with verify_exp off: an expired token decodes.
JwtDecodeNoExpiry(atom, clock) ==
    /\ atom.k = "jwt"
    /\ Tokens[atom.t].alg = "RS256"
    /\ Tokens[atom.t].sig
    /\ Tokens[atom.t].exp # None
    /\ Tokens[atom.t].iat # None

\* jwt.decode(token, key, algorithms=["RS256"], options={"require": ["exp",
\* "iat"], "verify_exp": True, "verify_aud": False}): TRUE when it returns the
\* claims, FALSE when it raises.
JwtDecode(atom, clock) ==
    /\ atom.k = "jwt"
    /\ Tokens[atom.t].alg = "RS256"
    /\ Tokens[atom.t].sig
    /\ Tokens[atom.t].exp # None
    /\ Tokens[atom.t].iat # None
    /\ Tokens[atom.t].exp[1] > clock

Rejected(msg) == [ok |-> FALSE, err |-> msg, claims |-> None]

\* JWTAuth.verify_and_match: the claims, or the ValueError raised.
VerifyAndMatch(key, headers, character_id, clock) ==
    IF ~key THEN Rejected("JWT verification not available")
    ELSE LET token == ExtractBearerToken(headers)
         IN  IF token = None THEN Rejected("Missing JWT")
             ELSE IF ~JwtDecode(token[1], clock) THEN Rejected("Invalid token.")
             ELSE IF PyStr(Tokens[token[1].t].cid) # character_id
                  THEN Rejected("Invalid token.")
                  ELSE [ok |-> TRUE, err |-> "", claims |-> Some(Tokens[token[1].t])]

\* ------------------------------------------------------------ configuration
RegionCn == <<"c","n">>

RegionHk == <<"h","k">>

RegionEn == <<"e","n">>

ReportsCn == <<"r","e","p","o","r","t","s","-","c","n">>

ReportsHk == <<"r","e","p","o","r","t","s","-","h","k">>

ReportsEn == <<"r","e","p","o","r","t","s","-","e","n">>

CertificatesCn == <<"c","e","r","t","i","f","i","c","a","t","e","s","-","c","n">>

CertificatesHk == <<"c","e","r","t","i","f","i","c","a","t","e","s","-","h","k">>

CertificatesEn == <<"c","e","r","t","i","f","i","c","a","t","e","s","-","e","n">>

\* CONTAINER_MAP.get(region): the report container of a region, or None.
CONTAINER_MAP_get(region) ==
    CASE region = RegionCn -> Some(ReportsCn)
      [] region = RegionHk -> Some(ReportsHk)
      [] region = RegionEn -> Some(ReportsEn)
      [] OTHER             -> None

\* CERT_CONTAINER_MAP.get(region): the certificate container of a region, or None.
CERT_CONTAINER_MAP_get(region) ==
    CASE region = RegionCn -> Some(CertificatesCn)
      [] region = RegionHk -> Some(CertificatesHk)
      [] region = RegionEn -> Some(CertificatesEn)
      [] OTHER             -> None

\* The values the APP_REGION environment variable is started with.
AppRegionEnv == { <<"c","n">>, <<"H","K">>, <<"e","u">> }

\* APP_REGION at startup: lower-cased, and "cn" when it is not a key of CONTAINER_MAP.
StartupRegion(env) ==
    IF CONTAINER_MAP_get(Lower(env)) = None THEN RegionCn ELSE Lower(env)

\* SAS_TTL_MIN, minutes (the clock counts minutes).
SAS_TTL_MIN == 5

\* AZURE_BLOB_CONNECTION_STRING as its ";"-separated "key=value" parts.
ConnAccountKey ==
    << [k |-> "AccountName", v |-> "acct"], [k |-> "AccountKey", v |-> "a2V5"],
       [k |-> "EndpointSuffix", v |-> "core.chinacloudapi.cn"] >>

ConnNoSuffix ==
    << [k |-> "AccountName", v |-> "acct"], [k |-> "AccountKey", v |-> "a2V5"] >>

ConnSasOnly ==
    << [k |-> "BlobEndpoint", v |-> "https://acct.blob.core.windows.net"],
       [k |-> "SharedAccessSignature", v |-> "sv=2022"] >>

ConnectionStrings == { ConnAccountKey, ConnNoSuffix, ConnSasOnly }

HasKey(conn, key) == \E i \in 1..Len(conn) : conn[i].k = key

ValueOf(conn, key) == conn[CHOOSE i \in 1..Len(conn) : conn[i].k = key].v

\* parse_conn_str: parts["AccountName"], parts["AccountKey"] raise KeyError
\* when the key is missing; EndpointSuffix has a default.
ParseConnStr(conn) ==
    IF ~HasKey(conn, "AccountName") \/ ~HasKey(conn, "AccountKey")
    THEN [raised |-> TRUE, account_name |-> "", account_key |-> "", endpoint_suffix |-> ""]
    ELSE [raised |-> FALSE,
          account_name |-> ValueOf(conn, "AccountName"),
          account_key |-> ValueOf(conn, "AccountKey"),
          endpoint_suffix |-> IF HasKey(conn, "EndpointSuffix")
                              THEN ValueOf(conn, "EndpointSuffix")
                              ELSE "core.windows.net"]

\* ------------------------------------------------------------ string helpers
DotPdf == <<".","p","d","f">>

DotPng == <<".","p","n","g">>

\* Code points outside ASCII, each written as one character.
NonAscii == {"U+00E9", "U+4E2D"}

Unreserved(c) ==
    \/ \E i \in 1..Len(UpperLetters) : c = UpperLetters[i] \/ c = LowerLetters[i]
    \/ \E i \in 1..Len(DigitChars) : c = DigitChars[i]
    \/ c \in {"_", ".", "-", "~"}

\* The %XX form of the UTF-8 bytes of a character.
PercentBytes(c) ==
    CASE c = " "      -> <<"%","2","0">>
      [] c = "/"      -> <<"%","2","F">>
      [] c = "\""     -> <<"%","2","2">>
      [] c = "U+00E9" -> <<"%","C","3","%","A","9">>
      [] c = "U+4E2D" -> <<"%","E","4","%","B","8","%","A","D">>
      [] OTHER        -> <<"%","3","F">>

RECURSIVE Quote(_, _)
\* urllib.parse.quote(s, safe=safe)
Quote(s, safe) ==
    IF s = <<>> THEN <<>>
    ELSE (IF Unreserved(Head(s)) \/ Head(s) \in safe THEN <<Head(s)>>
          ELSE PercentBytes(Head(s))) \o Quote(Tail(s), safe)

\* s.encode('ascii', 'ignore').decode('ascii')
AsciiIgnore(s) == SelectSeq(s, LAMBDA c : c \notin NonAscii)

\* os.path.basename
Basename(s) ==
    LET slashes == {i \in 1..Len(s) : s[i] = "/"}
    IN  IF slashes = {} THEN s
        ELSE SubSeq(s, (CHOOSE i \in slashes : \A j \in slashes : j <= i) + 1, Len(s))

Inline == <<"i","n","l","i","n","e">>

Attachment == <<"a","t","t","a","c","h","m","e","n","t">>

\* resolve_blob_name
ResolveBlobName(character_id) == character_id \o DotPdf

ApplicationPdf == <<"a","p","p","l","i","c","a","t","i","o","n","/","p","d","f">>

ImagePng == <<"i","m","a","g","e","/","p","n","g">>

TextPlain == <<"t","e","x","t","/","p","l","a","i","n">>

\* ------------------------------------------------------------------- state
VARIABLES
    public_key,         \* JWT_PUBLIC_KEY was read at startup (FALSE: None)
    APP_REGION,         \* the default region, after the startup coercion
    CONNECTION_STRING,  \* the storage connection string
    now,                \* the wall clock, in minutes
    pc,                 \* where the handler of the request in flight stands
    req,                \* the request in flight
    auth_result,        \* what verify_and_match gave, and the time it ran at
    container_name,     \* the handler's local container_name
    view_mode,          \* the handler's local view_mode
    blob_name,          \* the handler's local blob_name / png_blob_name
    checked,            \* the (container, blob) blob_exists was asked about
    signed,             \* the arguments generate_blob_sas was called with
    calls,              \* the stages this request has run, in order
    response            \* the response sent

vars == << public_key, APP_REGION, CONNECTION_STRING, now, pc, req, auth_result,
           container_name, view_mode, blob_name, checked, signed, calls, response >>

config == << public_key, APP_REGION, CONNECTION_STRING >>

\* CONTAINER_NAME = CONTAINER_MAP[APP_REGION]
CONTAINER_NAME == CONTAINER_MAP_get(APP_REGION)[1]

\* CERT_CONTAINER_NAME = CERT_CONTAINER_MAP[APP_REGION]
CERT_CONTAINER_NAME == CERT_CONTAINER_MAP_get(APP_REGION)[1]

\* x or y
Or(x, y) == IF Truthy(x) THEN x[1] ELSE y

\* ----------------------------------------------------------------- stages
\* blob_exists with `return True` in the except branch.
BlobExistsOptimistic(store) == store # "absent"

\* blob_exists: bc.exists() answers, or raises and the except gives False.
BlobExists(store) == IF store = "raises" THEN FALSE ELSE store = "present"

\* get_report_sas with the region looked up before the container parameter.
ReportContainerRegionFirst(container, region) ==
    LET byRegion == IF Truthy(region) THEN CONTAINER_MAP_get(Lower(region[1])) ELSE None
        byParam  == IF ~Truthy(byRegion) THEN container ELSE byRegion
    IN  IF ~Truthy(byParam) THEN CONTAINER_NAME ELSE byParam[1]

\* get_report_sas: the container, container -> region -> default.
ReportContainer(container, region) ==
    LET byRegion == IF ~Truthy(container) /\ Truthy(region)
                    THEN CONTAINER_MAP_get(Lower(region[1]))
                    ELSE container
    IN  IF ~Truthy(byRegion) THEN CONTAINER_NAME ELSE byRegion[1]

\* get_certificate_sas: the container, container -> region -> default.
CertificateContainer(container, region) ==
    LET byRegion == IF ~Truthy(container) /\ Truthy(region)
                    THEN CERT_CONTAINER_MAP_get(Lower(region[1]))
                    ELSE container
        byDefault == IF ~Truthy(byRegion)
                     THEN (IF CERT_CONTAINER_MAP_get(APP_REGION) = None
                           THEN Some(CertificatesCn)
                           ELSE CERT_CONTAINER_MAP_get(APP_REGION))
                     ELSE byRegion
    IN  IF ~Truthy(byDefault) THEN CERT_CONTAINER_NAME ELSE byDefault[1]

\* view_mode = (view or "attachment").lower(), "attachment" unless inline/attachment
ViewMode(view) ==
    LET v == Lower(Or(view, Attachment))
    IN  IF v \notin {Inline, Attachment} THEN Attachment ELSE v

\* The content_disposition build_sas_url hands to generate_blob_sas.
ContentDisposition(disp, basename) ==
    disp \o <<";"," ">> \o <<"f","i","l","e","n","a","m","e","=","\"">>
         \o Quote(basename, {"/"}) \o <<"\"">>

\* build_sas_url: the URL and the arguments of generate_blob_sas, or the
\* exception raised.
BuildSasUrl(character_id, container_arg, view, filename, content_type, blob_name_override) ==
    LET conn      == ParseConnStr(CONNECTION_STRING)
        container == Or(container_arg, CONTAINER_NAME)
        blob      == Or(blob_name_override, ResolveBlobName(character_id))
        disp      == IF Lower(view) = Inline THEN Inline ELSE Attachment
        basename  == Or(filename, Basename(blob))
        sas       == [account_name |-> conn.account_name,
                      container_name |-> container,
                      blob_name |-> blob,
                      account_key |-> conn.account_key,
                      permission |-> "r",
                      expiry |-> now + SAS_TTL_MIN,
                      start |-> now - 5,
                      protocol |-> "https",
                      content_disposition |-> ContentDisposition(disp, basename),
                      content_type |-> content_type]
    IN  IF conn.raised THEN [raised |-> "KeyError", url |-> None, sas |-> None]
        ELSE IF blob = <<>>
             THEN [raised |-> "FileNotFoundError", url |-> None, sas |-> None]
             ELSE [raised |-> "",
                   url |-> Some([scheme |-> "https",
                                 host |-> <<conn.account_name, "blob", conn.endpoint_suffix>>,
                                 container |-> container,
                                 blob_name |-> blob,
                                 query |-> sas]),
                   sas |-> Some(sas)]

\* ApiResponse(code, message, data) sent with an HTTP status.
ApiResponse(status, code, message, data) ==
    [status |-> status, code |-> code, message |-> message, data |-> data]

\* get_report_sas / get_certificate_sas, except ValueError: 401 with str(e).
AuthFailure(err) == ApiResponse(401, 0, err, None)

\* The blob absent: JSONResponse(status_code=404, ... "Not Found").
NotFound == ApiResponse(404, 0, "Not Found", None)

\* return ApiResponse(code=1, message="Success", data=url)
Success(url) == ApiResponse(200, 1, "Success", url)

\* except FileNotFoundError / except Exception of get_report_sas: the
\* ApiResponse is returned, so the HTTP status is the default 200.
ReportFailure(exc) ==
    IF exc = "FileNotFoundError"
    THEN ApiResponse(200, 0, "Blob not found for given character_id", None)
    ELSE ApiResponse(200, 0, "Failed to generate SAS link", None)

\* except FileNotFoundError / except Exception of get_certificate_sas.
CertificateFailure(exc) ==
    IF exc = "FileNotFoundError"
    THEN ApiResponse(200, 0, "Blob not found for given character_id", None)
    ELSE ApiResponse(200, 0, "Failed to generate certificate SAS link", None)

\* The except branch without its return: the handler goes on after a rejection.
AfterVerifyFallThrough(result) == "resolve"

\* After the try around verify_and_match: return on ValueError, else go on.
AfterVerify(result) == IF result.ok THEN "resolve" ELSE "done"

\* After `if not blob_exists(...)`: return the 404, else go on to sign.
AfterExists(found) == IF found THEN "sign" ELSE "done"

\* ------------------------------------------------------------------ inputs
NoHeaders == [Authentication |-> None, Authorization |-> None]

InAuthentication(value) == [Authentication |-> Some(value), Authorization |-> None]

InAuthorization(value) == [Authentication |-> None, Authorization |-> Some(value)]

HeaderInputs ==
    { NoHeaders,
      InAuthentication(<<>>),
      InAuthentication(<<Jwt(1)>>),
      InAuthentication(<<Word(<<"b","E","A","R","E","R">>), Sp, Sp, Jwt(1), Sp>>),
      InAuthentication(<<Word(<<"B","a","s","i","c">>), Sp, Jwt(1)>>),
      InAuthentication(<<Bearer>>),
      InAuthorization(<<Bearer, Sp, Jwt(1)>>) }
    \cup { InAuthentication(<<Bearer, Sp, Jwt(i)>>) : i \in 1..Len(Tokens) }

CharacterIds == { <<"7">>, <<"1","2">>, <<"N","o","n","e">> }

Custom == <<"c","u","s","t","o","m">>

ContainerInputs == { None, Some(<<>>), Some(Custom) }

RegionInputs == { None, Some(<<>>), Some(<<"H","k">>), Some(RegionEn), Some(<<"x","x">>) }

\* (view, filename, content_type)
PresentationInputs ==
    { <<None, None, None>>,
      <<Some(<<"I","n","l","i","n","e">>), Some(<<"a"," ","b",".","p","d","f">>), None>>,
      <<Some(<<"p","o","p","u","p">>), Some(<<"U+4E2D","U+00E9">>), Some(TextPlain)>> }

NoRequest == [endpoint |-> "", headers |-> NoHeaders, character_id |-> <<>>,
              container |-> None, region |-> None, view |-> None,
              filename |-> None, content_type |-> None]

\* ----------------------------------------------------------------- actions
Init ==
    /\ public_key \in BOOLEAN
    /\ APP_REGION \in { StartupRegion(env) : env \in AppRegionEnv }
    /\ CONNECTION_STRING \in ConnectionStrings
    /\ now = 1
    /\ pc = "idle"
    /\ req = NoRequest
    /\ auth_result = None
    /\ container_name = None
    /\ view_mode = None
    /\ blob_name = None
    /\ checked = None
    /\ signed = None
    /\ calls = <<>>
    /\ response = None

\* Time passes, whatever the handler is doing.
Tick ==
    /\ now < MaxTime
    /\ now' = now + 1
    /\ UNCHANGED << config, pc, req, auth_result, container_name, view_mode,
                    blob_name, checked, signed, calls, response >>

Arrive(endpoint, headers, character_id, container, region, view, filename, content_type) ==
    /\ req' = [endpoint |-> endpoint, headers |-> headers, character_id |-> character_id,
               container |-> container, region |-> region, view |-> view,
               filename |-> filename, content_type |-> content_type]
    /\ pc' = "verify"
    /\ UNCHANGED << config, now, auth_result, container_name, view_mode, blob_name,
                    checked, signed, calls, response >>

\* GET /sas/report/{character_id}
GetReportSas ==
    /\ pc = "idle"
    /\ \E h \in HeaderInputs, id \in CharacterIds, c \in ContainerInputs,
          r \in RegionInputs, p \in PresentationInputs :
           Arrive("report", h, id, c, r, p[1], p[2], p[3])

\* GET /sas/certificate/{character_id}: there is no content_type parameter.
GetCertificateSas ==
    /\ pc = "idle"
    /\ \E h \in HeaderInputs, id \in CharacterIds, c \in ContainerInputs,
          r \in RegionInputs, p \in PresentationInputs :
           Arrive("certificate", h, id, c, r, p[1], p[2], None)

\* _ = auth.verify_and_match(request, character_id), and the 401 on ValueError.
Verify ==
    /\ pc = "verify"
    /\ LET result == VerifyAndMatch(public_key, req.headers, req.character_id, now)
       IN  /\ auth_result' = Some([ok |-> result.ok, err |-> result.err,
                                    claims |-> result.claims, at |-> now])
           /\ pc' = AfterVerify(result)
           /\ response' = IF result.ok THEN response ELSE Some(AuthFailure(result.err))
    /\ calls' = Append(calls, "verify_and_match")
    /\ UNCHANGED << config, now, req, container_name, view_mode, blob_name,
                    checked, signed >>

\* The container, the view mode and the blob name of the request.
Resolve ==
    /\ pc = "resolve"
    /\ container_name' = Some(IF req.endpoint = "report"
                              THEN ReportContainer(req.container, req.region)
                              ELSE CertificateContainer(req.container, req.region))
    /\ view_mode' = Some(ViewMode(req.view))
    /\ blob_name' = Some(IF req.endpoint = "report"
                         THEN ResolveBlobName(req.character_id)
                         ELSE req.character_id \o DotPng)
    /\ calls' = Append(calls, "resolve")
    /\ pc' = "exists"
    /\ UNCHANGED << config, now, req, auth_result, checked, signed, response >>

\* if not blob_exists(container_name, blob_name): 404. The store answers
\* "present" or "absent", or the call raises.
ExistenceGate ==
    /\ pc = "exists"
    /\ \E store \in {"present", "absent", "raises"} :
          /\ checked' = Some([container |-> container_name[1], blob |-> blob_name[1],
                              store |-> store])
          /\ pc' = AfterExists(BlobExists(store))
          /\ response' = IF BlobExists(store) THEN response ELSE Some(NotFound)
    /\ calls' = Append(calls, "blob_exists")
    /\ UNCHANGED << config, now, req, auth_result, container_name, view_mode,
                    blob_name, signed >>

\* url = await build_sas_url(...), the success response, and the excepts.
Sign ==
    /\ pc = "sign"
    /\ LET built == IF req.endpoint = "report"
                    THEN BuildSasUrl(req.character_id, container_name, view_mode[1],
                                     req.filename, Or(req.content_type, ApplicationPdf),
                                     None)
                    ELSE BuildSasUrl(req.character_id, container_name, view_mode[1],
                                     Some(Or(req.filename, blob_name[1])), ImagePng,
                                     blob_name)
       IN  /\ signed' = built.sas
           /\ response' = Some(IF built.raised = "" THEN Success(built.url)
                               ELSE IF req.endpoint = "report"
                                    THEN ReportFailure(built.raised)
                                    ELSE CertificateFailure(built.raised))
    /\ calls' = Append(calls, "build_sas_url")
    /\ pc' = "done"
    /\ UNCHANGED << config, now, req, auth_result, container_name, view_mode,
                    blob_name, checked >>

\* The response is out; the request's locals are gone.
Finish ==
    /\ pc = "done"
    /\ pc' = "idle"
    /\ req' = NoRequest
    /\ auth_result' = None
    /\ container_name' = None
    /\ view_mode' = None
    /\ blob_name' = None
    /\ checked' = None
    /\ signed' = None
    /\ calls' = <<>>
    /\ response' = None
    /\ UNCHANGED << config, now >>

Next ==
    \/ Tick
    \/ GetReportSas
    \/ GetCertificateSas
    \/ Verify
    \/ Resolve
    \/ ExistenceGate
    \/ Sign
    \/ Finish

Spec == Init /\ [][Next]_vars

\* ------------------------------------------------------------------ claims
\* The JWTs a request carries, in either header.
CarriedIn(value) ==
    IF value = None THEN {}
    ELSE { value[1][i].t : i \in {j \in 1..Len(value[1]) : value[1][j].k = "jwt"} }

Verified == auth_result # None /\ auth_result[1].ok

Rejection == auth_result # None /\ ~auth_result[1].ok

\* The token has an entity-ID claim, and its string form is the path entity ID.
BoundTo(token, character_id) ==
    /\ token.cid.t \in {"int", "str"}
    /\ (IF token.cid.t = "int" THEN IntToStr(token.cid.n) ELSE token.cid.s) = character_id

\* C1: verification succeeds only if the token's signature verified, its
\* expiry is in the future and the string form of its characterId claim equals
\* the path entity ID; tokens that carry no characterId are covered too.
C1_VerifiedOnlyIfBound ==
    Verified =>
        /\ auth_result[1].claims # None
        /\ LET token == auth_result[1].claims[1]
           IN  /\ token.sig
               /\ token.alg = "RS256"
               /\ token.exp # None
               /\ token.exp[1] > auth_result[1].at
               /\ BoundTo(token, req.character_id)

\* Token i had expired at time `at`.
Expired(i, at) == Tokens[i].exp # None /\ Tokens[i].exp[1] <= at

Is401 ==
    /\ response # None
    /\ response[1].status = 401
    /\ response[1].code = 0
    /\ response[1].data = None

\* C2: on both endpoints every authentication rejection, whatever its cause,
\* gives HTTP 401 with code 0 and data null; an expired token is rejected this
\* way whatever its other claims are.
C2_RejectionIs401 ==
    auth_result # None =>
        /\ (Rejection => Is401)
        /\ (\E i \in CarriedIn(req.headers.Authentication) : Expired(i, auth_result[1].at))
              => Is401

\* An expired token whose other claims are all valid was answered 401.
C2_Witness ==
    /\ Is401
    /\ public_key
    /\ \E i \in CarriedIn(req.headers.Authentication) :
          /\ Expired(i, auth_result[1].at)
          /\ Tokens[i].sig /\ Tokens[i].alg = "RS256" /\ Tokens[i].iat # None
          /\ BoundTo(Tokens[i], req.character_id)

ExistenceFailed == checked # None /\ checked[1].store \in {"absent", "raises"}

\* C3: whenever the existence check is false, the store call raising
\* included, the response is HTTP 404, code 0, "Not Found", and build_sas_url
\* is never called for that request.
C3_AbsentIs404Unsigned ==
    ExistenceFailed =>
        /\ response = Some([status |-> 404, code |-> 0, message |-> "Not Found",
                            data |-> None])
        /\ signed = None
        /\ \A i \in 1..Len(calls) : calls[i] # "build_sas_url"
        /\ pc = "done"

\* The store call raised, and the request was answered 404.
C3_Witness ==
    /\ checked # None /\ checked[1].store = "raises"
    /\ response # None /\ response[1].status = 404

SignFailed ==
    /\ Len(calls) > 0 /\ calls[Len(calls)] = "build_sas_url"
    /\ signed = None

\* C4: an authenticated request whose object exists and whose signing fails
\* unexpectedly is answered HTTP 500, code 0, data null.
C4_SignFailureIs500 ==
    SignFailed =>
        /\ response # None
        /\ response[1].status = 500
        /\ response[1].code = 0
        /\ response[1].data = None

\* C5: the body of a 401 does not depend on the cause of the rejection: every
\* one carries the same message, "Invalid token.".
C5_UniformRejectionBody ==
    Rejection =>
        response = Some([status |-> 401, code |-> 0, message |-> "Invalid token.",
                         data |-> None])

\* C6: a request that carries its token only as `Authorization: Bearer <token>`
\* is authenticated exactly as if the value had been sent in `Authentication`.
C6_AuthorizationAlias ==
    (auth_result # None /\ req.headers.Authentication = None
        /\ req.headers.Authorization # None) =>
        auth_result[1].ok =
            VerifyAndMatch(public_key, InAuthentication(req.headers.Authorization[1]),
                           req.character_id, auth_result[1].at).ok

\* The display filename: the filename override if given, else the base name.
DisplayFilename == Or(req.filename, Basename(blob_name[1]))

\* <disposition>; filename="<ASCII fallback>"; filename*=UTF-8''<percent-encoded>
DualForm(disp, name) ==
    disp \o <<";"," ">> \o <<"f","i","l","e","n","a","m","e","=","\"">>
         \o (IF AsciiIgnore(name) = <<>>
             THEN <<"r","e","p","o","r","t",".","p","d","f">>
             ELSE AsciiIgnore(name))
         \o <<"\"",";"," ">>
         \o <<"f","i","l","e","n","a","m","e","*","=","U","T","F","-","8","'","'">>
         \o Quote(name, {})

\* C7: the Content-Disposition override passed to generate_blob_sas has the
\* dual form, with the ASCII fallback and the percent-encoded UTF-8 filename.
C7_DualFormDisposition ==
    signed # None =>
        signed[1].content_disposition = DualForm(view_mode[1], DisplayFilename)

\* The container the precedence rule names for a request.
ExpectedContainer ==
    LET mapped(region) == IF req.endpoint = "report" THEN CONTAINER_MAP_get(region)
                          ELSE CERT_CONTAINER_MAP_get(region)
    IN  IF req.container # None /\ req.container[1] # <<>> THEN req.container[1]
        ELSE IF req.region # None /\ mapped(Lower(req.region[1])) # None
             THEN mapped(Lower(req.region[1]))[1]
             ELSE mapped(APP_REGION)[1]

\* C8: the container of the existence check and of the signing is the explicit
\* container parameter, else the container of the region (case-insensitive, in
\* the endpoint's own map), else the endpoint's default container.
C8_ContainerPrecedence ==
    /\ container_name # None => container_name[1] = ExpectedContainer
    /\ checked # None => checked[1].container = ExpectedContainer
    /\ signed # None => signed[1].container_name = ExpectedContainer
    /\ (response # None /\ response[1].data # None)
         => response[1].data[1].container = ExpectedContainer

\* A link was signed for the explicit container although a recognized region
\* was given as well.
C8_Witness ==
    /\ signed # None
    /\ req.container = Some(Custom)
    /\ req.region = Some(<<"H","k">>)
    /\ signed[1].container_name = Custom

Stages == <<"verify_and_match", "resolve", "blob_exists", "build_sas_url">>

\* C9: the stages of a request run in the order verifier, resolver, existence
\* gate, signer, each at most once, and nothing runs after the first failure.
C9_StagesInOrder ==
    /\ Len(calls) <= Len(Stages)
    /\ calls = SubSeq(Stages, 1, Len(calls))
    /\ Rejection => (calls = <<"verify_and_match">> /\ checked = None /\ signed = None)
    /\ ExistenceFailed => (Len(calls) = 3 /\ signed = None)
    /\ response # None => pc = "done"

\* A rejected request was answered after the verifier alone had run.
C9_Witness ==
    /\ Rejection
    /\ response # None
    /\ calls = <<"verify_and_match">>

\* C10: a URL returned with code 1 names the object that was existence-checked,
\* <E>.pdf or <E>.png for the path entity ID E, and E is the string form of the
\* verified token's characterId.
C10_UrlNamesBoundObject ==
    (response # None /\ response[1].code = 1) =>
        /\ response[1].data # None
        /\ checked # None
        /\ response[1].data[1].blob_name = checked[1].blob
        /\ response[1].data[1].container = checked[1].container
        /\ checked[1].blob = req.character_id \o
                (IF req.endpoint = "report" THEN DotPdf ELSE DotPng)
        /\ Verified
        /\ BoundTo(auth_result[1].claims[1], req.character_id)

====
